---- MODULE Spec2Model ----
(***************************************************************************)
(* A model of the ReTool-for-Life backend (jbarnes850/ambient):            *)
(*   - the approval queue of tools/communication.py and tools/commerce.py  *)
(*     with the approve endpoint of main.py;                               *)
(*   - agent generation, evaluation and selection of orchestrator.py and   *)
(*     main.py;                                                            *)
(*   - the chat, trigger-demo and agent-status endpoints of main.py with   *)
(*     the reward computation and update_agent of RLAIFOptimizer.          *)
(* Scores are kept as exact integers in units of 1/ScoreUnit.              *)
(***************************************************************************)
EXTENDS Integers, Sequences, FiniteSets, Bags, TLC

(***************************************************************************)
(* Bounds of the model.                                                    *)
(***************************************************************************)
\* Tool calls (send_sms, send_whatsapp, commerce_buy) made in one run.
MaxToolCalls == 2
\* Calls of POST /api/approvals/{id}/approve made in one run.
MaxApproveCalls == 2
\* Scenarios of load_test_scenarios that evaluate_agents is run on.
MaxScenarios == 2
\* Length of an action log the reward functions are applied to.
MaxLog == 3
\* Calls of the generate-agent, chat, trigger-demo and agent-status endpoints
\* made in one run.
MaxCalls == 3
\* Tasks of demo_tasks that trigger_demo_sequence runs.
MaxDemoTasks == 1
\* Runs of evaluate_agents and the selection on one suite.
MaxRuns == 2
\* Calls of send_whatsapp_text.
MaxSendCalls == 2
\* Length of the wellness_goals list generate_agent_suite is applied to.
MaxGoals == 3

\* The values uuid4().hex[:8] is drawn from: 32 random bits, here two values.
ApprovalIdSpace == {"approval-0a", "approval-0b"}
\* Message texts an agent may ask to send.
Messages == {"m1"}
\* The phone number of the user profile (main.py:58).
Phones == {"+1234567890"}
\* Products an agent may ask to buy.
Products == {[product_id |-> "prod-1", product_name |-> "melatonin", price |-> 1299]}
\* The values the model may pass for require_approval; "absent" takes the default.
ApprovalArgs == {"absent", "true", "false"}

VARIABLES
    twilio_client,    \* TRUE iff the Twilio client was built at import time
    clock,            \* datetime.now() as approve_action reads it: strictly increasing
    heap,             \* the action dicts ever created, by creation number
    approval_queue,   \* the dict approval_id -> action dict, in insertion order
    outbox,           \* the bag of executions of a send or a purchase
    n_tool_calls,     \* tool calls made so far
    tasks,            \* the calls of approve_pending_action
    whatsapp_agents,  \* TRUE iff agents_whatsapp could be imported
    user_profile,     \* the profile generate_agent was called for
    gen_pc,           \* where the generate_agent handler stands
    agents,           \* the list generate_agent_suite returned
    test_scenarios,   \* the list evaluate_agents runs
    eval_i,           \* evaluate_agents: index of the agent being evaluated
    eval_j,           \* evaluate_agents: index of the next scenario
    total_score,      \* evaluate_agents: total_score of the current agent
    agent_traces,     \* evaluate_agents: agent_traces of the current agent
    scores,           \* evaluate_agents: the dict scores, in insertion order
    evaluation_traces,\* evaluate_agents: the dict evaluation_traces
    averages,         \* the avg_score computed for each agent, by position
    active_agents,    \* orchestrator.active_agents: user id -> agent
    deployed,         \* position in agents of the agent deploy_agent was given
    agent_impl,       \* the agent classes in use: "sdk" (agents_sdk.py) or "plain" (agents.py)
    lists,            \* the conversation_history list objects, by creation number
    app_agent_traces, \* app_state.agent_traces: agent id -> list of traces
    performance_history, \* optimizer.performance_history: agent id -> list of rewards
    now,              \* datetime.now() to the second, as deploy_agent formats it
    n_calls,          \* calls of the endpoints generate-agent, chat, trigger-demo
                      \* and agent-status started so far
    demo,             \* the call of trigger_demo_sequence in progress
    demo_results,     \* app_state.demo_results: user id -> last demo result
    status_reply,     \* what get_agent_status returned last
    chat_reply,       \* how the last call of chat_with_agent ended
    replacements,     \* user id -> how often the user's active agent was replaced
    completed,        \* user id -> interactions that ended with status completed
    regenerated,      \* the pairs (old agent, new agent) update_agent produced
    last_agent,       \* the agent process_message was called on last
    backend,          \* the completion backend when it is a function of its
                      \* arguments: (class, model, scenario number) -> outcome
    selected,         \* the agents selected by the runs on the current suite
    wa_call,          \* send_whatsapp_text: the call in progress
    wa_log,           \* send_whatsapp_text: what each finished call did
    pure_in,          \* the arguments a scoring function is applied to
    pure_out          \* the value it returned

gate_vars == <<twilio_client, clock, heap, approval_queue, outbox, n_tool_calls, tasks>>

select_vars == <<whatsapp_agents, user_profile, gen_pc, agents, test_scenarios,
                 eval_i, eval_j, total_score, agent_traces, scores,
                 evaluation_traces, averages, active_agents, deployed>>

live_vars == <<agent_impl, lists, app_agent_traces, performance_history, now,
               n_calls, demo, demo_results, status_reply, chat_reply,
               replacements, completed, regenerated, last_agent>>

rerun_vars == <<backend, selected>>

pure_vars == <<pure_in, pure_out>>

whatsapp_vars == <<wa_call, wa_log>>

vars == <<gate_vars, select_vars, live_vars, rerun_vars, whatsapp_vars, pure_vars>>

Tasks == 1 .. MaxApproveCalls

(***************************************************************************)
(* Python dict helpers: a dict is the sequence of its items in insertion   *)
(* order.  An assignment to a key already present replaces the value and   *)
(* keeps the key's position.                                               *)
(***************************************************************************)
Keys(d) == {d[i].key : i \in DOMAIN d}

IndexOf(d, k) == CHOOSE i \in DOMAIN d : d[i].key = k

Lookup(d, k) == d[IndexOf(d, k)].value

DictSet(d, k, v) ==
    IF k \in Keys(d)
    THEN [d EXCEPT ![IndexOf(d, k)].value = v]
    ELSE Append(d, [key |-> k, value |-> v])

\* The "execution_result" and "approved_at" keys are absent until set.
NoResult == [status |-> "absent"]

NoTime == 0

\* generate_approval_id: "approval-" + uuid4().hex[:8], with no look at the queue.
generate_approval_id == ApprovalIdSpace

\* require_approval: bool = True
RequireApproval(arg) == arg # "false"

\* send_whatsapp: to_number gets the whatsapp: prefix unless it has it.
WhatsappFormat(n) == [n EXCEPT !.prefix = "whatsapp:"]

PlainNumber(p) == [prefix |-> "", digits |-> p]

(***************************************************************************)
(* The branch of send_sms / send_whatsapp / commerce_buy that stores a     *)
(* pending action in the approval queue.                                   *)
(***************************************************************************)
StorePending(type, payload) ==
    \E approval_id \in generate_approval_id :
        /\ heap' = Append(heap, [type |-> type, payload |-> payload,
                                 status |-> "pending",
                                 approved_at |-> NoTime,
                                 execution_result |-> NoResult])
        /\ approval_queue' = DictSet(approval_queue, approval_id, Len(heap) + 1)
        /\ UNCHANGED outbox

\* The results the Twilio branch of send_sms / send_whatsapp can return.
SendStatuses == IF twilio_client THEN {"sent", "failed"} ELSE {"sent_mock"}

\* The result commerce_buy returns when it checks out.
BuyStatuses == {"completed"}

\* One execution, as recorded in outbox: ref is the action dict it was run for
\* (0 for a tool call that asked for no approval).
Execution(type, payload, status, ref) ==
    [type |-> type, payload |-> payload, status |-> status, ref |-> ref]

\* The execution branch of a tool, called with require_approval=False.
ExecuteNow(type, payload, statuses) ==
    \E status \in statuses :
        /\ outbox' = outbox (+) SetToBag({Execution(type, payload, status, 0)})
        /\ UNCHANGED <<heap, approval_queue>>

\* A tool call: either stores a pending action or executes at once.
ToolCall(type, payload, arg, statuses) ==
    /\ n_tool_calls < MaxToolCalls
    /\ n_tool_calls' = n_tool_calls + 1
    /\ IF RequireApproval(arg)
       THEN StorePending(type, payload)
       ELSE ExecuteNow(type, payload, statuses)
    /\ UNCHANGED <<twilio_client, clock, tasks, select_vars, live_vars, pure_vars, rerun_vars, whatsapp_vars>>

\* send_sms(message, to_number, require_approval), as WellnessAgent._execute_tool
\* calls it with the arguments the language model produced.
send_sms(message, to_number, arg) ==
    ToolCall("sms", [message |-> message, to_number |-> PlainNumber(to_number)],
             arg, SendStatuses)

\* send_whatsapp(message, to_number, require_approval).
send_whatsapp(message, to_number, arg) ==
    ToolCall("whatsapp",
             [message |-> message, to_number |-> WhatsappFormat(PlainNumber(to_number))],
             arg, SendStatuses)

\* commerce_buy(product_id, product_name, price, user_id, require_approval).
commerce_buy(product, arg) ==
    ToolCall("purchase", product, arg, BuyStatuses)

(***************************************************************************)
(* approve_pending_action (main.py) awaiting approve_action                *)
(* (tools/communication.py).  A call is at "idle" before it starts, at     *)
(* "send" while the deferred send is awaited, and at "done" when the       *)
(* endpoint has answered (the broadcast that follows changes no state of   *)
(* the queue).  Calls are numbered in the order they start.  The fields    *)
(* was and overlapped record what the call met: the status of the request  *)
(* on entry, and whether another call was suspended in the same send.      *)
(***************************************************************************)
IdleTask == [pc |-> "idle", approval_id |-> "", action |-> 0, outcome |-> "none",
             was |-> "none", overlapped |-> FALSE]

\* NotFoundReturn with the error return lost: the call is answered as approved.
NotFoundReturn_Approved(t, approval_id) ==
    /\ tasks' = [tasks EXCEPT ![t] = [IdleTask EXCEPT !.pc = "done",
                                                      !.approval_id = approval_id,
                                                      !.outcome = "approved",
                                                      !.was = "absent"]]
    /\ UNCHANGED <<heap, approval_queue, outbox, clock>>

\* if approval_id not in approval_queue: return {"status": "error", ...};
\* the endpoint turns it into HTTP 404.
NotFoundReturn(t, approval_id) ==
    /\ tasks' = [tasks EXCEPT ![t] = [IdleTask EXCEPT !.pc = "done",
                                                      !.approval_id = approval_id,
                                                      !.outcome = "NotFound",
                                                      !.was = "absent"]]
    /\ UNCHANGED <<heap, approval_queue, outbox, clock>>

\* The tasks suspended in the send of the same action dict.
Racing(t, ref) == {u \in Tasks \ {t} : tasks[u].pc = "send" /\ tasks[u].action = ref}

\* action = approval_queue[approval_id]; status and approved_at are set, with no
\* look at the current status; then the deferred action is dispatched on type.
MarkApproved(t, approval_id) ==
    LET ref == Lookup(approval_queue, approval_id)
        sends == heap[ref].type \in {"sms", "whatsapp"}
        mine == [pc |-> IF sends THEN "send" ELSE "done",
                 approval_id |-> approval_id,
                 action |-> ref,
                 outcome |-> IF sends THEN "none" ELSE "approved",
                 was |-> heap[ref].status,
                 overlapped |-> Racing(t, ref) # {}]
    IN  /\ heap' = [heap EXCEPT ![ref].status = "approved",
                                ![ref].approved_at = clock]
        /\ clock' = clock + 1
        /\ tasks' = [u \in Tasks |->
                        IF u = t THEN mine
                        ELSE IF u \in Racing(t, ref)
                             THEN [tasks[u] EXCEPT !.overlapped = TRUE]
                             ELSE tasks[u]]
        /\ UNCHANGED <<approval_queue, outbox>>

\* approve_action up to the await of the deferred send.
approve_action(t, approval_id) ==
    /\ tasks[t].pc = "idle"
    /\ \A u \in Tasks : u < t => tasks[u].pc # "idle"
    /\ IF approval_id \notin Keys(approval_queue)
       THEN NotFoundReturn(t, approval_id)
       ELSE MarkApproved(t, approval_id)
    /\ UNCHANGED <<twilio_client, n_tool_calls, select_vars, live_vars, pure_vars, rerun_vars, whatsapp_vars>>

\* The rest of approve_action with a failed send putting the request back to
\* pending and answered as an error.
approve_action_send_Requeues(t) ==
    /\ tasks[t].pc = "send"
    /\ LET ref == tasks[t].action IN
       \E status \in SendStatuses :
          /\ outbox' = outbox (+) SetToBag(
                 {Execution(heap[ref].type, heap[ref].payload, status, ref)})
          /\ heap' = [heap EXCEPT ![ref].execution_result = [status |-> status],
                                  ![ref].status = IF status = "failed"
                                                  THEN "pending" ELSE @]
          /\ tasks' = [tasks EXCEPT ![t].pc = "done",
                                    ![t].outcome = IF status = "failed"
                                                   THEN "error" ELSE "approved"]
    /\ UNCHANGED <<twilio_client, clock, approval_queue, n_tool_calls, select_vars,
                   live_vars, pure_vars, rerun_vars, whatsapp_vars>>

\* result = await send_sms(..., require_approval=False) (or send_whatsapp);
\* action["execution_result"] = result; return {"status": "approved", ...}.
approve_action_send(t) ==
    /\ tasks[t].pc = "send"
    /\ LET ref == tasks[t].action IN
       \E status \in SendStatuses :
          /\ outbox' = outbox (+) SetToBag(
                 {Execution(heap[ref].type, heap[ref].payload, status, ref)})
          /\ heap' = [heap EXCEPT ![ref].execution_result =
                                      [status |-> status]]
    /\ tasks' = [tasks EXCEPT ![t].pc = "done", ![t].outcome = "approved"]
    /\ UNCHANGED <<twilio_client, clock, approval_queue, n_tool_calls, select_vars,
                   live_vars, pure_vars, rerun_vars, whatsapp_vars>>

\* get_pending_approvals: the queue's items in dict order, those pending.
get_pending_approvals ==
    SelectSeq(approval_queue, LAMBDA e : heap[e.value].status = "pending")


(***************************************************************************)
(* Agent generation (MetaAgentOrchestrator.generate_agent_suite).          *)
(***************************************************************************)
\* Goal lists a profile may carry.
Goals == {"better_sleep", "stress_reduction", "stress_management",
          "exercise_consistency", "hydration", "unknown_goal"}

UserIds == {"demo-user-001", "demo-user-002"}

Profile(goals, channel) ==
    [id |-> "demo-user-001", name |-> "Demo User",
     wellness_goals |-> goals, messaging_channel |-> channel]

\* The profiles generate_agent is run for.
SelectProfiles ==
    { Profile(<<"better_sleep">>, "sms"),
      Profile(<<"better_sleep", "stress_reduction">>, "sms"),
      Profile(<<"unknown_goal">>, "sms"),
      Profile(<<"better_sleep">>, "whatsapp") }

\* self.agent_templates, with the WhatsApp entries when the import succeeded.
agent_templates ==
    [t \in {"sleep_specialist", "stress_manager", "fitness_coach", "nutrition_advisor"}
           \cup (IF whatsapp_agents
                 THEN {"whatsapp_sleep_specialist", "whatsapp_wellness"} ELSE {}) |->
        CASE t = "sleep_specialist" -> "SleepOptimizationAgent"
          [] t = "stress_manager" -> "StressManagementAgent"
          [] t = "fitness_coach" -> "FitnessAgent"
          [] t = "nutrition_advisor" -> "NutritionAgent"
          [] t = "whatsapp_sleep_specialist" -> "WhatsAppSleepAgent"
          [] t = "whatsapp_wellness" -> "WhatsAppWellnessAgent"]

\* goal_agent_map.get(goal): "none" for a goal that is not a key.
goal_agent_map(profile, goal) ==
    CASE goal = "better_sleep" ->
            IF profile.messaging_channel = "whatsapp" /\ whatsapp_agents
               /\ "whatsapp_sleep_specialist" \in DOMAIN agent_templates
            THEN "whatsapp_sleep_specialist" ELSE "sleep_specialist"
      [] goal \in {"stress_reduction", "stress_management"} -> "stress_manager"
      [] goal = "exercise_consistency" -> "fitness_coach"
      [] goal = "hydration" -> "nutrition_advisor"
      [] OTHER -> "none"

\* self.name as each agent class sets it in __init__: only the WhatsApp classes
\* name themselves; every other class inherits the base class's name.
AgentName(cls, profile) ==
    CASE cls = "WhatsAppSleepAgent" -> <<"WhatsApp Sleep Agent for", profile.name>>
      [] cls = "WhatsAppWellnessAgent" -> <<"WhatsApp Wellness Agent for", profile.name>>
      [] OTHER -> <<"Wellness Agent for", profile.name>>

\* self.instructions of an agent: the classes of agents.py set it in __init__
\* (Generated) and update_agent replaces it by the k-th rewrite (k >= 1); the
\* classes of agents_sdk.py and agents_whatsapp.py have no such attribute.
NoAttribute == 0 - 1
Generated == 0

\* agent_class(user_profile, model=model); conversation_history is the number
\* of the agent's list in lists, 0 before the list is made.
NewAgent(cls, profile, model) ==
    [class |-> cls, name |-> AgentName(cls, profile), model |-> model,
     user_id |-> profile.id,
     instructions |-> IF agent_impl = "plain" THEN Generated ELSE NoAttribute,
     conversation_history |-> 0]

RECURSIVE SuiteFrom_NoDedupe(_, _, _, _)
\* The loop over user_goals without the test against created_types.
SuiteFrom_NoDedupe(profile, k, created_types, acc) ==
    IF k > Len(profile.wellness_goals) THEN acc
    ELSE LET agent_type == goal_agent_map(profile, profile.wellness_goals[k]) IN
         IF agent_type # "none"
         THEN SuiteFrom_NoDedupe(profile, k + 1, created_types \cup {agent_type},
                        acc \o << NewAgent(agent_templates[agent_type], profile, "gpt-4.1"),
                                  NewAgent(agent_templates[agent_type], profile, "gpt-4.1-mini") >>)
         ELSE SuiteFrom_NoDedupe(profile, k + 1, created_types, acc)

RECURSIVE SuiteFrom(_, _, _, _)
\* The loop over user_goals, from goal number k on.
SuiteFrom(profile, k, created_types, acc) ==
    IF k > Len(profile.wellness_goals) THEN acc
    ELSE LET agent_type == goal_agent_map(profile, profile.wellness_goals[k]) IN
         IF agent_type # "none" /\ agent_type \notin created_types
         THEN SuiteFrom(profile, k + 1, created_types \cup {agent_type},
                        acc \o << NewAgent(agent_templates[agent_type], profile, "gpt-4.1"),
                                  NewAgent(agent_templates[agent_type], profile, "gpt-4.1-mini") >>)
         ELSE SuiteFrom(profile, k + 1, created_types, acc)

\* generate_agent_suite without the general wellness agent of the last lines.
generate_agent_suite_NoFallback(profile) == SuiteFrom(profile, 1, {}, <<>>)

generate_agent_suite(profile) ==
    LET made == SuiteFrom(profile, 1, {}, <<>>) IN
    IF made = <<>> THEN << NewAgent("WellnessAgent", profile, "gpt-4.1") >> ELSE made

\* agent_key = f"{agent.name} ({agent.model})"
agent_key(agent) == [name |-> agent.name, model |-> agent.model]

(***************************************************************************)
(* Evaluation (MetaAgentOrchestrator.evaluate_agents, _calculate_score).   *)
(* A score s of the code is the integer s * ScoreUnit; an average is the   *)
(* exact fraction num / den.                                               *)
(***************************************************************************)
ScoreUnit == 60

Scenario(name, outcomes, tools) ==
    [name |-> name, expected_outcomes |-> outcomes, required_tools |-> tools]

\* load_test_scenarios(persona_type)
load_test_scenarios(persona_type) ==
    << Scenario("Sleep Issues", <<"sleep", "recommendation", "insight">>,
                <<"get_health_metrics">>),
       Scenario("Schedule Optimization", <<"calendar", "optimization", "suggestion">>,
                <<"optimize_calendar">>),
       Scenario("Stress Management", <<"stress", "product", "recommendation">>,
                <<"search_wellness_products">>),
       Scenario("Hydration Reminder", <<"reminder", "hydration">>, <<"send_sms">>) >>
    \o (IF persona_type = "high_stress"
        THEN << Scenario("Meeting Overload", <<"break", "schedule", "stress">>,
                         <<"optimize_calendar", "send_sms">>) >>
        ELSE <<>>)

ToSet(seq) == {seq[i] : i \in DOMAIN seq}

\* str.lower() on the words the model uses.
Lower(w) ==
    CASE w = "Sleep" -> "sleep"
      [] w = "Calendar" -> "calendar"
      [] OTHER -> w

\* A message is the set of the words it holds; the empty set is "".
\* outcome.lower() in message.lower()
Addresses(message, outcome) == Lower(outcome) \in {Lower(w) : w \in message}

\* _calculate_score comparing the outcome words as they are written.
calculate_score_cased(response, expected_outcomes, required_tools) ==
    LET tool_part ==
            IF required_tools # <<>> /\ response.tool_calls # <<>>
            THEN (Cardinality(ToSet(response.tool_calls) \cap ToSet(required_tools))
                    * (ScoreUnit \div 2)) \div Len(required_tools)
            ELSE 0
        addressed ==
            Cardinality({i \in DOMAIN expected_outcomes :
                            expected_outcomes[i] \in response.message})
        outcome_part ==
            IF expected_outcomes # <<>> /\ response.message # {}
            THEN (addressed * (ScoreUnit \div 2)) \div Len(expected_outcomes)
            ELSE 0
    IN  IF required_tools = <<>> /\ expected_outcomes = <<>>
        THEN (IF response.message # {} THEN (8 * ScoreUnit) \div 10
                                       ELSE (5 * ScoreUnit) \div 10)
        ELSE tool_part + outcome_part

\* _calculate_score(response, expected_outcomes, required_tools)
calculate_score(response, expected_outcomes, required_tools) ==
    LET tool_part ==
            IF required_tools # <<>> /\ response.tool_calls # <<>>
            THEN (Cardinality(ToSet(response.tool_calls) \cap ToSet(required_tools))
                    * (ScoreUnit \div 2)) \div Len(required_tools)
            ELSE 0
        addressed ==
            Cardinality({i \in DOMAIN expected_outcomes :
                            Addresses(response.message, expected_outcomes[i])})
        outcome_part ==
            IF expected_outcomes # <<>> /\ response.message # {}
            THEN (addressed * (ScoreUnit \div 2)) \div Len(expected_outcomes)
            ELSE 0
    IN  IF required_tools = <<>> /\ expected_outcomes = <<>>
        THEN (IF response.message # {} THEN (8 * ScoreUnit) \div 10
                                       ELSE (5 * ScoreUnit) \div 10)
        ELSE tool_part + outcome_part

\* total_score += 0.5  # Partial credit for not crashing
PartialCredit == (5 * ScoreUnit) \div 10

\* The value of backend when the backend is any.
NoBackend == <<>>

\* The responses process_message returns in the model.
Responses ==
    { [message |-> {}, tool_calls |-> <<>>],
      [message |-> {"Sleep", "recommendation", "insight", "Calendar",
                    "optimization", "suggestion", "stress", "product"},
       tool_calls |-> <<"get_health_metrics", "optimize_calendar",
                        "search_wellness_products">>] }

\* The dict process_message of agents_sdk.py returns from its except branch
\* when the run of the model fails: an apology, no tool calls.
ErrorReply ==
    [message |-> {"I", "encountered", "an", "error", "processing", "your", "request"},
     tool_calls |-> <<>>]

\* What one (agent, scenario) pair can do: process_message returns a response,
\* returns the reply of its own except branch, or the pair raises.
PairOutcomes == [kind : {"response"}, response : Responses]
                \cup {[kind |-> "backend_error", response |-> ErrorReply]}
                \cup {[kind |-> "raise", response |-> [message |-> {}, tool_calls |-> <<>>]]}

\* process_message(scenario["prompt"], capture_traces=True): the classes of
\* agents.py take no capture_traces argument, so the call itself raises.
PairOutcomesOf(impl) ==
    IF impl = "plain" THEN {o \in PairOutcomes : o.kind = "raise"} ELSE PairOutcomes

\* The outcomes of a pair whatever the backend is given.
CompletionOutcomes_Any(agent, j) == PairOutcomesOf(agent_impl)

\* The outcomes of the pair of an agent and scenario number j.  A backend that
\* is a function of its arguments gives one outcome: process_message of
\* agents_sdk.py passes the agent's instructions and model and the prompt of
\* the scenario and nothing else.
CompletionOutcomes(agent, j) ==
    IF backend = NoBackend THEN PairOutcomesOf(agent_impl)
    ELSE IF agent_impl = "plain" THEN PairOutcomesOf(agent_impl)
    ELSE {backend[<<agent.class, agent.model, j>>]}

\* avg_score without the division by len(test_scenarios).
Average_Total(total, n) == [num |-> total, den |-> 1]

\* avg_score = total_score / len(test_scenarios) if test_scenarios else 0
Average(total, n) ==
    IF n > 0 THEN [num |-> total, den |-> n] ELSE [num |-> 0, den |-> 1]

Less(a, b) == a.num * b.den < b.num * a.den

(***************************************************************************)
(* The generate_agent handler of main.py.                                  *)
(***************************************************************************)
NoAgent == [class |-> "None", name |-> <<>>, model |-> "", user_id |-> "",
            instructions |-> NoAttribute, conversation_history |-> 0]

\* self.conversation_history = [] in the __init__ of each agent of the suite:
\* the agent at position i gets the list number Len(lists) + i.
WithHistories(suite) ==
    IF agent_impl = "plain"
    THEN [i \in DOMAIN suite |-> [suite[i] EXCEPT !.conversation_history = Len(lists) + i]]
    ELSE suite

\* f"{user_id}-{agent.__class__.__name__}-{timestamp}"; stamp 0 stands for the
\* id without a timestamp that chat and trigger-demo build.
AgentId(user_id, cls, stamp) == [user_id |-> user_id, class |-> cls, stamp |-> stamp]

\* agents = await generate_agent_suite(user); test_scenarios =
\* load_test_scenarios(); evaluate_agents starts with empty dicts.
GenerateSuite ==
    /\ gen_pc = "start"
    /\ LET suite == generate_agent_suite(user_profile) IN
        /\ agents' = WithHistories(suite)
        /\ lists' = IF agent_impl = "plain"
                     THEN lists \o [i \in DOMAIN suite |-> <<>>] ELSE lists
    /\ gen_pc' = "evaluate"
    /\ UNCHANGED <<whatsapp_agents, user_profile, test_scenarios, eval_i, eval_j,
                   total_score, agent_traces, scores, evaluation_traces, averages,
                   active_agents, deployed>>
    /\ UNCHANGED <<agent_impl, app_agent_traces, performance_history, now,
                   n_calls, demo, demo_results, status_reply, chat_reply,
                   replacements, completed, regenerated, last_agent>>
    /\ UNCHANGED <<gate_vars, pure_vars, rerun_vars, whatsapp_vars>>

\* The end of the loop body without "total_score = 0" for the next agent.
FinishAgent_KeepsTotal(total, traces) ==
    LET avg_score == Average(total, Len(test_scenarios))
        key == agent_key(agents[eval_i])
    IN  /\ scores' = DictSet(scores, key, avg_score)
        /\ evaluation_traces' = DictSet(evaluation_traces, key, traces)
        /\ averages' = Append(averages, avg_score)
        /\ eval_i' = eval_i + 1
        /\ eval_j' = 1
        /\ total_score' = total
        /\ agent_traces' = <<>>
        /\ gen_pc' = IF eval_i = Len(agents) THEN "select" ELSE "evaluate"

\* The end of the loop body "for agent in agents": the average is stored under
\* the agent's key and the next agent starts.
FinishAgent(total, traces) ==
    LET avg_score == Average(total, Len(test_scenarios))
        key == agent_key(agents[eval_i])
    IN  /\ scores' = DictSet(scores, key, avg_score)
        /\ evaluation_traces' = DictSet(evaluation_traces, key, traces)
        /\ averages' = Append(averages, avg_score)
        /\ eval_i' = eval_i + 1
        /\ eval_j' = 1
        /\ total_score' = 0
        /\ agent_traces' = <<>>
        /\ gen_pc' = IF eval_i = Len(agents) THEN "select" ELSE "evaluate"

\* One pass of "for scenario in test_scenarios": the agent answers or raises.
EvaluatePair ==
    /\ gen_pc = "evaluate"
    /\ eval_i <= Len(agents)
    /\ eval_j <= Len(test_scenarios)
    /\ \E o \in CompletionOutcomes(agents[eval_i], eval_j) :
        LET scenario == test_scenarios[eval_j]
            score == IF o.kind = "raise" THEN PartialCredit
                     ELSE calculate_score(o.response, scenario.expected_outcomes,
                                          scenario.required_tools)
            trace_info == [scenario |-> scenario.name, score |-> score,
                           response |-> o.response.message,
                           error |-> o.kind = "raise"]
        IN  IF eval_j = Len(test_scenarios)
            THEN FinishAgent(total_score + score, Append(agent_traces, trace_info))
            ELSE /\ total_score' = total_score + score
                 /\ agent_traces' = Append(agent_traces, trace_info)
                 /\ eval_j' = eval_j + 1
                 /\ UNCHANGED <<eval_i, scores, evaluation_traces, averages, gen_pc>>
    /\ UNCHANGED <<whatsapp_agents, user_profile, agents, test_scenarios,
                   active_agents, deployed>>
    /\ UNCHANGED <<gate_vars, live_vars, pure_vars, rerun_vars, whatsapp_vars>>

\* An agent evaluated on an empty scenario list.
EvaluateNone ==
    /\ gen_pc = "evaluate"
    /\ eval_i <= Len(agents)
    /\ test_scenarios = <<>>
    /\ FinishAgent(0, <<>>)
    /\ UNCHANGED <<whatsapp_agents, user_profile, agents, test_scenarios,
                   active_agents, deployed>>
    /\ UNCHANGED <<gate_vars, live_vars, pure_vars, rerun_vars, whatsapp_vars>>

\* evaluate_agents on an empty list of agents: "for agent in agents" runs no
\* pass and the empty dicts are returned.
EvaluateNoAgents ==
    /\ gen_pc = "evaluate"
    /\ agents = <<>>
    /\ gen_pc' = "select"
    /\ UNCHANGED <<whatsapp_agents, user_profile, agents, test_scenarios, eval_i,
                   eval_j, total_score, agent_traces, scores, evaluation_traces,
                   averages, active_agents, deployed>>
    /\ UNCHANGED <<gate_vars, live_vars, pure_vars, rerun_vars, whatsapp_vars>>

\* max(scores, key=scores.get): the first key, in dict order, of a maximal value.
MaxKeyIndex(d) ==
    CHOOSE i \in DOMAIN d :
        /\ \A k \in DOMAIN d : ~Less(d[i].value, d[k].value)
        /\ \A k \in DOMAIN d : k < i => Less(d[k].value, d[i].value)

\* next(a for a in agents if f"{a.name} ({a.model})" == best_agent_name)
FirstWithKey(list, key) ==
    CHOOSE i \in DOMAIN list :
        /\ agent_key(list[i]) = key
        /\ \A k \in DOMAIN list : k < i => agent_key(list[k]) # key

\* deploy_agent writing the agent into every user's entry.
deploy_agent_everywhere(user_id, agent) ==
    active_agents' = [u \in UserIds |-> agent]

\* deploy_agent(user_id, agent): self.active_agents[user_id] = agent
deploy_agent(user_id, agent) ==
    active_agents' = [active_agents EXCEPT ![user_id] = agent]

\* The failed selection registering an empty log for the user all the same.
SelectionFailed_Registers ==
    /\ gen_pc' = "error"
    /\ app_agent_traces' =
          DictSet(app_agent_traces, AgentId(user_profile.id, "None", now), <<>>)
    /\ UNCHANGED <<active_agents, deployed, selected, now, replacements>>

\* max() of the empty dict raises ValueError; "except Exception as e" of
\* generate_agent sends the error message and raises HTTPException(500).
SelectionFailed ==
    /\ gen_pc' = "error"
    /\ UNCHANGED <<active_agents, deployed, selected, now, app_agent_traces,
                   replacements>>

\* best_agent_name = max(scores, key=scores.get); best_agent = next(...);
\* agent_id = deploy_agent(user_id, best_agent)
SelectAndDeploy ==
    /\ gen_pc = "select"
    /\ IF scores = <<>>
       THEN SelectionFailed
       ELSE LET best_agent_name == scores[MaxKeyIndex(scores)].key
                best == FirstWithKey(agents, best_agent_name)
                user_id == user_profile.id
            IN  /\ deploy_agent(user_id, agents[best])
                /\ deployed' = best
                /\ selected' = Append(selected, agents[best])
                /\ \E stamp \in {now, now + 1} :
                     /\ now' = stamp
                     /\ app_agent_traces' =
                           DictSet(app_agent_traces,
                                   AgentId(user_id, agents[best].class, stamp), <<>>)
                /\ replacements' =
                      IF active_agents[user_id] # NoAgent
                      THEN [replacements EXCEPT ![user_id] = @ + 1] ELSE replacements
                /\ gen_pc' = "done"
    /\ UNCHANGED <<whatsapp_agents, user_profile, agents, test_scenarios, eval_i,
                   eval_j, total_score, agent_traces, scores, evaluation_traces,
                   averages>>
    /\ UNCHANGED <<agent_impl, lists, performance_history, n_calls, demo,
                   demo_results, status_reply, chat_reply, completed,
                   regenerated, last_agent>>
    /\ UNCHANGED <<gate_vars, pure_vars, backend, whatsapp_vars>>

(***************************************************************************)
(* RLAIFOptimizer of orchestrator.py.  A reward is an integer in units of  *)
(* 1/ScoreUnit, as a score is.                                             *)
(***************************************************************************)
\* A trace as chat_with_agent and trigger_demo_sequence build it; words are
\* the words of str(trace) that matter to the optimizer.
Trace(action, status, words) == [action |-> action, status |-> status, words |-> words]

\* The words w of a trace for which "approval" in w.lower() holds.
ApprovalWords == {"approval", "Approval", "pending_approval", "approval_id"}

\* _evaluate_task_completion without the division by len(actions).
evaluate_task_completion_count(actions) ==
    Cardinality({i \in DOMAIN actions : actions[i].status = "completed"}) * ScoreUnit

\* _evaluate_task_completion counting every status but "failed" as completed.
evaluate_task_completion_NotFailed(actions) ==
    IF actions = <<>> THEN 0
    ELSE LET n_completed == Cardinality({i \in DOMAIN actions :
                                            actions[i].status # "failed"})
         IN  (n_completed * ScoreUnit) \div Len(actions)

\* _evaluate_task_completion(actions)
evaluate_task_completion(actions) ==
    IF actions = <<>> THEN 0
    ELSE LET n_completed == Cardinality({i \in DOMAIN actions :
                                            actions[i].status = "completed"})
         IN  (n_completed * ScoreUnit) \div Len(actions)

\* _evaluate_engagement(actions): return 0.85
evaluate_engagement(actions) == (85 * ScoreUnit) \div 100

\* _evaluate_timing(actions): return 0.9
evaluate_timing(actions) == (9 * ScoreUnit) \div 10

\* _evaluate_efficiency(actions): return 0.8
evaluate_efficiency(actions) == (8 * ScoreUnit) \div 10

\* _evaluate_safety(actions): 1.0 if no action mentions an approval, else 0.95
evaluate_safety(actions) ==
    LET approval_actions == {i \in DOMAIN actions :
                                actions[i].words \cap ApprovalWords # {}}
    IN  IF approval_actions = {} THEN ScoreUnit ELSE (95 * ScoreUnit) \div 100

\* The dict rewards of calculate_daily_rewards, keys in the order of the code.
RewardKeys == <<"task_completion", "user_engagement", "timing_accuracy",
                "resource_efficiency", "safety_compliance">>

Rewards(actions) ==
    [task_completion |-> evaluate_task_completion(actions),
     user_engagement |-> evaluate_engagement(actions),
     timing_accuracy |-> evaluate_timing(actions),
     resource_efficiency |-> evaluate_efficiency(actions),
     safety_compliance |-> evaluate_safety(actions)]

RECURSIVE SumValues(_, _)
\* sum(rewards.values()), from key number k on
SumValues(rewards, k) ==
    IF k > Len(RewardKeys) THEN 0
    ELSE rewards[RewardKeys[k]] + SumValues(rewards, k + 1)

\* The test of the caller against 0.7 in place of 0.8.
BelowThreshold_07(rewards) ==
    10 * SumValues(rewards, 1) < 7 * ScoreUnit * Len(RewardKeys)

\* The test of the caller against 0.95 in place of 0.8.
BelowThreshold_095(rewards) ==
    100 * SumValues(rewards, 1) < 95 * ScoreUnit * Len(RewardKeys)

\* sum(rewards.values()) / len(rewards) < 0.8
BelowUpgradeThreshold(rewards) ==
    10 * SumValues(rewards, 1) < 8 * ScoreUnit * Len(RewardKeys)

\* The weak areas with "<=" in place of "<".
weak_areas_Inclusive(rewards) ==
    SelectSeq(RewardKeys, LAMBDA k : 10 * rewards[k] <= 7 * ScoreUnit)

\* weak_areas = [k for k, v in rewards.items() if v < 0.7]
weak_areas(rewards) ==
    SelectSeq(RewardKeys, LAMBDA k : 10 * rewards[k] < 7 * ScoreUnit)

\* What update_agent returns when nothing raises: the agent it was given
\* ("if not weak_areas: return agent") or the improved agent it constructs.
update_agent_returns(rewards) ==
    IF weak_areas(rewards) = <<>> THEN "same_agent" ELSE "improved_agent"

\* "improvements": [k for k, v in rewards.items() if v < 0.7]
improvements(rewards) ==
    SelectSeq(RewardKeys, LAMBDA k : 10 * rewards[k] < 7 * ScoreUnit)

(***************************************************************************)
(* The scoring functions applied to arguments of a bounded set.            *)
(***************************************************************************)
NoValue == [fn |-> "none"]

\* Arguments of _calculate_score.
ScoreInputs ==
    [fn : {"score"},
     response : [message : {{}, {"Sleep"}, {"sleep", "insight"}, {"weather"}},
                 tool_calls : {<<>>, <<"get_health_metrics">>,
                               <<"send_sms", "get_health_metrics">>,
                               <<"send_sms", "send_sms">>}],
     expected_outcomes : {<<>>, <<"sleep">>, <<"Sleep", "insight">>,
                          <<"sleep", "recommendation", "insight">>},
     required_tools : {<<>>, <<"get_health_metrics">>,
                       <<"optimize_calendar", "send_sms">>}]

RECURSIVE LogsOfLen(_)
\* The action logs of n traces.
LogsOfLen(n) ==
    IF n = 0 THEN {<<>>}
    ELSE {Append(l, Trace("chat", st, w)) :
            l \in LogsOfLen(n - 1), st \in {"completed", "failed", "pending"},
            w \in {{}, {"pending_approval"}}}

\* Arguments of calculate_daily_rewards.
RewardInputs ==
    [fn : {"rewards"}, agent_actions : UNION {LogsOfLen(n) : n \in 0 .. MaxLog}]

\* The values 0, 0.6, 0.7, 0.75, 0.8 and 1.0 of a reward dimension.
RewardValues ==
    {0, (6 * ScoreUnit) \div 10, (7 * ScoreUnit) \div 10, (75 * ScoreUnit) \div 100,
     (8 * ScoreUnit) \div 10, ScoreUnit}

\* Arguments of update_agent: the dict rewards.
UpdateInputs ==
    [fn : {"update"},
     rewards : [task_completion : RewardValues, user_engagement : RewardValues,
                timing_accuracy : RewardValues, resource_efficiency : RewardValues,
                safety_compliance : RewardValues]]

\* score = await self._calculate_score(response, expected_outcomes, required_tools)
ScoreStep ==
    /\ pure_in.fn = "score"
    /\ pure_out = NoValue
    /\ pure_out' = [fn |-> "score",
                    score |-> calculate_score(pure_in.response,
                                              pure_in.expected_outcomes,
                                              pure_in.required_tools)]
    /\ UNCHANGED <<gate_vars, select_vars, live_vars, rerun_vars, whatsapp_vars, pure_in>>

\* rewards = await optimizer.calculate_daily_rewards(agent_id, agent_actions),
\* and what the caller and update_agent derive from it.
RewardStep ==
    /\ pure_in.fn = "rewards"
    /\ pure_out = NoValue
    /\ LET rewards == Rewards(pure_in.agent_actions) IN
        pure_out' = [fn |-> "rewards", rewards |-> rewards,
                     below_threshold |-> BelowUpgradeThreshold(rewards),
                     weak_areas |-> weak_areas(rewards),
                     new_agent |-> IF BelowUpgradeThreshold(rewards)
                                   THEN update_agent_returns(rewards)
                                   ELSE "not_called",
                     agent_upgraded |-> BelowUpgradeThreshold(rewards)]
    /\ UNCHANGED <<gate_vars, select_vars, live_vars, rerun_vars, whatsapp_vars, pure_in>>

\* The test of trigger_demo_sequence on the rewards, the weak areas that
\* update_agent names in its request for new instructions, and the
\* improvements of the agent_upgraded message.
UpdateStep ==
    /\ pure_in.fn = "update"
    /\ pure_out = NoValue
    /\ LET rewards == pure_in.rewards IN
        pure_out' = [fn |-> "update",
                     triggered |-> BelowUpgradeThreshold(rewards),
                     weak_areas |-> weak_areas(rewards),
                     improvements |-> improvements(rewards)]
    /\ UNCHANGED <<gate_vars, select_vars, live_vars, rerun_vars, whatsapp_vars, pure_in>>

(***************************************************************************)
(* The live endpoints of main.py: chat, trigger-demo and agent-status, and *)
(* RLAIFOptimizer.update_agent.  One call of trigger_demo_sequence runs at *)
(* a time; it interleaves with generate_agent and the other endpoints at   *)
(* its awaits.                                                             *)
(***************************************************************************)
\* app_state.users
users ==
    [u \in UserIds |->
        [Profile(IF u = "demo-user-001" THEN <<"better_sleep">>
                                        ELSE <<"stress_reduction">>, "sms")
            EXCEPT !.id = u]]

IdleDemo == [pc |-> "idle", user_id |-> "", agent |-> NoAgent, i |-> 1,
             results |-> <<>>, rewards |-> <<>>]

\* generate_agent(user_id): the handler starts with fresh locals.
BeginGenerate(user_id) ==
    /\ gen_pc \in {"done", "error"}
    /\ n_calls < MaxCalls
    /\ n_calls' = n_calls + 1
    /\ user_profile' = users[user_id]
    /\ gen_pc' = "start"
    /\ agents' = <<>>
    /\ eval_i' = 1
    /\ eval_j' = 1
    /\ total_score' = 0
    /\ agent_traces' = <<>>
    /\ scores' = <<>>
    /\ evaluation_traces' = <<>>
    /\ averages' = <<>>
    /\ deployed' = 0
    /\ UNCHANGED <<whatsapp_agents, test_scenarios, active_agents>>
    /\ selected' = <<>>
    /\ UNCHANGED <<agent_impl, lists, app_agent_traces, performance_history, now,
                   demo, demo_results, status_reply, chat_reply, replacements,
                   completed, regenerated, last_agent>>
    /\ UNCHANGED <<gate_vars, pure_vars, backend, whatsapp_vars>>

\* agent.process_message(user_message) of agents.py: the user message is
\* appended, the completion is awaited, the assistant message is appended.
\* The agents of agents_sdk.py keep no conversation_history.
process_message(agent, ok) ==
    /\ lists' = IF agent.conversation_history # 0
                THEN [lists EXCEPT ![agent.conversation_history] =
                        @ \o (IF ok THEN <<"user", "assistant">> ELSE <<"user">>)]
                ELSE lists
    /\ last_agent' = agent

\* The handler's use of the response: response.message, response.dict() and
\* tc.dict() exist on the AgentResponse of agents.py and not on the dict the
\* other agent classes return.
ResponseUsable(agent, ok) == ok /\ agent_impl = "plain"

\* How chat_with_agent ends: it returns the dict built from the response, or
\* an exception leaves the handler.  The handler catches nothing: an exception
\* of process_message, and the AttributeError of response.message on a dict,
\* both leave it.
ChatOutcome(agent, ok) ==
    IF ResponseUsable(agent, ok) THEN "returned" ELSE "exception"

\* What the caller of chat_with_agent gets: the returned dict is
\* response.dict(), the fields of AgentResponse, with no success flag and no
\* error;
\* "not_found" is the HTTPException 404 of a user without an agent.
ChatReply(user_id, ok, outcome) ==
    [user_id |-> user_id, backend_failed |-> ~ok, outcome |-> outcome,
     success_flag |-> FALSE, error |-> FALSE]

\* agent_id = f"{user_id}-{Class}"; if agent_id in app_state.agent_traces:
\*     app_state.agent_traces[agent_id].append(trace)
StoreTrace(user_id, agent, trace) ==
    LET agent_id == AgentId(user_id, agent.class, 0) IN
    app_agent_traces' =
        IF agent_id \in Keys(app_agent_traces)
        THEN DictSet(app_agent_traces, agent_id,
                     Append(Lookup(app_agent_traces, agent_id), trace))
        ELSE app_agent_traces

\* What str(trace) of a completed interaction may hold.
TraceWords == {{}, {"pending_approval"}}

\* POST /api/users/{user_id}/chat
chat_with_agent(user_id) ==
    /\ n_calls < MaxCalls
    /\ n_calls' = n_calls + 1
    /\ LET agent == active_agents[user_id] IN
        IF agent = NoAgent
        THEN /\ chat_reply' = << ChatReply(user_id, TRUE, "not_found") >>
             /\ UNCHANGED <<lists, last_agent, app_agent_traces, completed>>
        ELSE \E ok \in BOOLEAN, w \in TraceWords :
                /\ process_message(agent, ok)
                /\ chat_reply' = << ChatReply(user_id, ok, ChatOutcome(agent, ok)) >>
                /\ IF ResponseUsable(agent, ok)
                   THEN /\ StoreTrace(user_id, agent, Trace("chat", "completed", w))
                        /\ completed' = [completed EXCEPT ![user_id] = @ + 1]
                   ELSE UNCHANGED <<app_agent_traces, completed>>
    /\ UNCHANGED <<agent_impl, performance_history, now, demo,
                   demo_results, status_reply, replacements, regenerated>>
    /\ UNCHANGED <<gate_vars, select_vars, pure_vars, rerun_vars, whatsapp_vars>>

\* calculate_daily_rewards storing the rewards in place of the history.
calculate_daily_rewards_Overwrite(agent_id, agent_actions) ==
    performance_history' =
        DictSet(performance_history, agent_id, <<Rewards(agent_actions)>>)

\* calculate_daily_rewards(agent_id, agent_actions): the rewards are appended
\* to performance_history[agent_id].
calculate_daily_rewards(agent_id, agent_actions) ==
    performance_history' =
        DictSet(performance_history, agent_id,
                Append(IF agent_id \in Keys(performance_history)
                       THEN Lookup(performance_history, agent_id) ELSE <<>>,
                       Rewards(agent_actions)))

\* traces[-10:]
LastTen(traces) ==
    IF Len(traces) <= 10 THEN traces ELSE SubSeq(traces, Len(traces) - 9, Len(traces))

\* The first key of app_state.agent_traces that holds user_id, 0 if none.
FirstIdOf(user_id) ==
    LET hits == {i \in DOMAIN app_agent_traces :
                    app_agent_traces[i].key.user_id = user_id}
    IN  IF hits = {} THEN 0 ELSE CHOOSE i \in hits : \A k \in hits : i <= k

\* "version": 1 in the reply of get_agent_status
ReportedVersion(user_id) == 1

\* GET /api/users/{user_id}/agent-status
get_agent_status(user_id) ==
    /\ n_calls < MaxCalls
    /\ n_calls' = n_calls + 1
    /\ LET agent == active_agents[user_id]
           first == FirstIdOf(user_id)
           traces == IF first = 0 THEN <<>>
                     ELSE LastTen(app_agent_traces[first].value)
           agent_id == IF first = 0 THEN AgentId(user_id, "unknown", 0)
                       ELSE app_agent_traces[first].key
       IN  IF agent = NoAgent
           THEN UNCHANGED <<performance_history, status_reply>>
           ELSE /\ calculate_daily_rewards(agent_id, traces)
                /\ status_reply' = << [user_id |-> user_id,
                                       version |-> ReportedVersion(user_id),
                                       recent_actions |-> traces,
                                       performance |-> Rewards(traces)] >>
    /\ UNCHANGED <<agent_impl, lists, app_agent_traces, now, demo, demo_results,
                   chat_reply, replacements, completed, regenerated, last_agent>>
    /\ UNCHANGED <<gate_vars, select_vars, pure_vars, rerun_vars, whatsapp_vars>>

\* app_state.demo_results[user_id] = {...}; the handler returns.  regeneration
\* records how the upgrade went; the code prints it or shows it in no field.
FinishDemo(rewards, agent_upgraded, regeneration) ==
    /\ demo_results' =
         [demo_results EXCEPT ![demo.user_id] =
            << [results |-> demo.results, performance_metrics |-> rewards,
                agent_upgraded |-> agent_upgraded,
                regeneration |-> regeneration] >>]
    /\ demo' = IdleDemo

\* POST /api/users/{user_id}/trigger-demo: the active agent is read once.
trigger_demo_sequence(user_id) ==
    /\ demo.pc = "idle"
    /\ n_calls < MaxCalls
    /\ n_calls' = n_calls + 1
    /\ LET agent == active_agents[user_id] IN
        demo' = IF agent = NoAgent THEN demo
                ELSE [IdleDemo EXCEPT !.pc = "tasks", !.user_id = user_id,
                                      !.agent = agent]
    /\ UNCHANGED <<agent_impl, lists, app_agent_traces, performance_history, now,
                   demo_results, status_reply, chat_reply, replacements,
                   completed, regenerated, last_agent>>
    /\ UNCHANGED <<gate_vars, select_vars, pure_vars, rerun_vars, whatsapp_vars>>

\* One pass of "for task in demo_tasks": the try block and its except.
DemoTask ==
    /\ demo.pc = "tasks"
    /\ \E ok \in BOOLEAN, w \in TraceWords :
        /\ process_message(demo.agent, ok)
        /\ IF ResponseUsable(demo.agent, ok)
           THEN /\ StoreTrace(demo.user_id, demo.agent, Trace("demo", "completed", w))
                /\ completed' = [completed EXCEPT ![demo.user_id] = @ + 1]
           ELSE UNCHANGED <<app_agent_traces, completed>>
        /\ demo' = [demo EXCEPT
                      !.results = Append(@, IF ResponseUsable(demo.agent, ok)
                                            THEN "completed" ELSE "failed"),
                      !.i = @ + 1,
                      !.pc = IF demo.i = MaxDemoTasks THEN "reward" ELSE "tasks"]
    /\ UNCHANGED <<agent_impl, performance_history, now, n_calls, demo_results,
                   status_reply, chat_reply, replacements,
                   regenerated>>
    /\ UNCHANGED <<gate_vars, select_vars, pure_vars, rerun_vars, whatsapp_vars>>

\* The except branch around update_agent with the upgrade undoing the deploy.
RegenerationFailed_Undeploys(rewards) ==
    /\ FinishDemo(rewards, FALSE, "failed")
    /\ active_agents' = [active_agents EXCEPT ![demo.user_id] = NoAgent]
    /\ UNCHANGED <<replacements, regenerated>>

\* except Exception as e: print(f"Error upgrading agent: {e}")
RegenerationFailed(rewards) ==
    /\ FinishDemo(rewards, FALSE, "failed")
    /\ UNCHANGED <<active_agents, replacements, regenerated>>

\* app_state.orchestrator.active_agents[user_id] = new_agent
AssignActive(user_id, new_agent) ==
    /\ active_agents' = [active_agents EXCEPT ![user_id] = new_agent]
    /\ replacements' = IF active_agents[user_id] # new_agent
                       THEN [replacements EXCEPT ![user_id] = @ + 1]
                       ELSE replacements

\* "Trigger RLAIF improvement": the rewards of the stored traces, the test
\* against 0.8 and update_agent up to its await of the rewrite.
DemoReward ==
    /\ demo.pc = "reward"
    /\ LET agent_id == AgentId(demo.user_id, demo.agent.class, 0)
           traces == IF agent_id \in Keys(app_agent_traces)
                     THEN Lookup(app_agent_traces, agent_id) ELSE <<>>
           rewards == Rewards(traces)
       IN  /\ calculate_daily_rewards(agent_id, traces)
           /\ IF ~BelowUpgradeThreshold(rewards)
              THEN /\ FinishDemo(rewards, FALSE, "not_triggered")
                   /\ UNCHANGED <<active_agents, replacements, regenerated>>
              ELSE IF weak_areas(rewards) = <<>>
              THEN /\ AssignActive(demo.user_id, demo.agent)
                   /\ FinishDemo(rewards, TRUE, "same_agent")
                   /\ UNCHANGED regenerated
              ELSE IF demo.agent.instructions = NoAttribute
              THEN RegenerationFailed(rewards)
              ELSE /\ demo' = [demo EXCEPT !.pc = "rewrite", !.rewards = <<rewards>>]
                   /\ UNCHANGED <<active_agents, replacements, demo_results,
                                  regenerated>>
    /\ UNCHANGED <<whatsapp_agents, user_profile, gen_pc, agents, test_scenarios,
                   eval_i, eval_j, total_score, agent_traces, scores,
                   evaluation_traces, averages, deployed>>
    /\ UNCHANGED <<agent_impl, lists, app_agent_traces, now, n_calls,
                   status_reply, chat_reply, completed, last_agent>>
    /\ UNCHANGED <<gate_vars, pure_vars, rerun_vars, whatsapp_vars>>

\* How the rest of update_agent can go: the rewrite call raises, the
\* construction of the new agent raises, or both succeed.
RewriteOutcomes == {"ok", "backend_error", "constructor_error"}

\* improved_agent = agent.__class__(agent.user_profile, agent.model) with the
\* rewritten instructions and the old agent's conversation_history list.
ImprovedAgent(agent) == [agent EXCEPT !.instructions = @ + 1]

\* update_agent from its await on, and the rest of the try block.
DemoRewrite ==
    /\ demo.pc = "rewrite"
    /\ \E o \in RewriteOutcomes :
        IF o = "ok"
        THEN /\ AssignActive(demo.user_id, ImprovedAgent(demo.agent))
             /\ regenerated' = regenerated \cup
                    {[old |-> demo.agent, new |-> ImprovedAgent(demo.agent)]}
             /\ FinishDemo(demo.rewards[1], TRUE, "replaced")
        ELSE RegenerationFailed(demo.rewards[1])
    /\ UNCHANGED <<whatsapp_agents, user_profile, gen_pc, agents, test_scenarios,
                   eval_i, eval_j, total_score, agent_traces, scores,
                   evaluation_traces, averages, deployed>>
    /\ UNCHANGED <<agent_impl, lists, app_agent_traces, performance_history, now,
                   n_calls, status_reply, chat_reply, completed, last_agent>>
    /\ UNCHANGED <<gate_vars, pure_vars, rerun_vars, whatsapp_vars>>

(***************************************************************************)
(* send_whatsapp_text of agents_whatsapp.py (and of whatsapp_agent.py, the *)
(* same code): the loop over the attempts.  The call is synchronous; each  *)
(* pass of the loop is one step.                                           *)
(***************************************************************************)
\* max_attempts = 3
max_attempts == 3

\* The messages the callers send: the two screentime notices and a text the
\* agent wrote.
WhatsAppTexts == {"screentime_heads_up", "screentime_on", "agent_text"}

NoCall == [pc |-> "idle", message |-> "", attempt |-> 0, failures |-> 0]

\* "for attempt in range(1, max_attempts + 1)" yields one attempt more than
\* max_attempts.
LastAttempt_OneMore(attempt) == attempt = max_attempts + 1

\* "for attempt in range(1, max_attempts + 1)": the pass with attempt =
\* max_attempts is the last.
LastAttempt(attempt) == attempt = max_attempts

\* send_whatsapp_text(message): the loop starts with attempt = 1.
send_whatsapp_text(message) ==
    /\ wa_call.pc = "idle"
    /\ Len(wa_log) < MaxSendCalls
    /\ wa_call' = [pc |-> "attempt", message |-> message, attempt |-> 1,
                   failures |-> 0]
    /\ UNCHANGED wa_log
    /\ UNCHANGED <<gate_vars, select_vars, live_vars, rerun_vars, pure_vars>>

\* One pass of the loop: twilio_client.messages.create returns and the
\* function returns the "Sent WhatsApp" summary, or it raises, the warning is
\* logged, the thread sleeps 2 seconds and the loop goes on; after the last
\* pass the function returns the "Error sending WhatsApp" summary.
WhatsAppAttempt ==
    /\ wa_call.pc = "attempt"
    /\ \E created \in BOOLEAN :
        IF created
        THEN /\ wa_log' = Append(wa_log, [message |-> wa_call.message,
                                          result |-> "Sent WhatsApp",
                                          attempts |-> wa_call.attempt,
                                          failures |-> wa_call.failures,
                                          deliveries |-> 1])
             /\ wa_call' = NoCall
        ELSE IF LastAttempt(wa_call.attempt)
        THEN /\ wa_log' = Append(wa_log, [message |-> wa_call.message,
                                          result |-> "Error sending WhatsApp",
                                          attempts |-> wa_call.attempt,
                                          failures |-> wa_call.failures + 1,
                                          deliveries |-> 0])
             /\ wa_call' = NoCall
        ELSE /\ wa_call' = [wa_call EXCEPT !.attempt = @ + 1, !.failures = @ + 1]
             /\ UNCHANGED wa_log
    /\ UNCHANGED <<gate_vars, select_vars, live_vars, rerun_vars, pure_vars>>

(***************************************************************************)
(* Specifications.                                                         *)
(***************************************************************************)
WhatsAppIdle ==
    /\ wa_call = NoCall
    /\ wa_log = <<>>

GateIdle ==
    /\ twilio_client = FALSE
    /\ clock = 1
    /\ heap = <<>>
    /\ approval_queue = <<>>
    /\ outbox = EmptyBag
    /\ n_tool_calls = 0
    /\ tasks = [t \in Tasks |-> IdleTask]

SelectIdle ==
    /\ gen_pc = "start"
    /\ agents = <<>>
    /\ eval_i = 1
    /\ eval_j = 1
    /\ total_score = 0
    /\ agent_traces = <<>>
    /\ scores = <<>>
    /\ evaluation_traces = <<>>
    /\ averages = <<>>
    /\ active_agents = [u \in UserIds |-> NoAgent]
    /\ deployed = 0

LiveIdle ==
    /\ lists = <<>>
    /\ app_agent_traces = <<>>
    /\ performance_history = <<>>
    /\ now = 1
    /\ n_calls = 0
    /\ demo = IdleDemo
    /\ demo_results = [u \in UserIds |-> <<>>]
    /\ status_reply = <<>>
    /\ chat_reply = <<>>
    /\ replacements = [u \in UserIds |-> 0]
    /\ completed = [u \in UserIds |-> 0]
    /\ regenerated = {}
    /\ last_agent = NoAgent

\* No function is fixed for the backend and no run has selected an agent.
RerunIdle ==
    /\ backend = NoBackend
    /\ selected = <<>>

PureIdle ==
    /\ pure_in = NoValue
    /\ pure_out = NoValue

\* The approval gate: tool calls and approve calls in any order.
Init ==
    /\ twilio_client \in BOOLEAN
    /\ clock = 1
    /\ heap = <<>>
    /\ approval_queue = <<>>
    /\ outbox = EmptyBag
    /\ n_tool_calls = 0
    /\ tasks = [t \in Tasks |-> IdleTask]
    /\ whatsapp_agents = FALSE
    /\ user_profile = Profile(<<>>, "sms")
    /\ test_scenarios = <<>>
    /\ SelectIdle
    /\ agent_impl = "sdk"
    /\ LiveIdle
    /\ WhatsAppIdle
    /\ RerunIdle
    /\ PureIdle

Next ==
    \/ \E m \in Messages, p \in Phones, a \in ApprovalArgs : send_sms(m, p, a)
    \/ \E m \in Messages, p \in Phones, a \in ApprovalArgs : send_whatsapp(m, p, a)
    \/ \E g \in Products, a \in ApprovalArgs : commerce_buy(g, a)
    \/ \E t \in Tasks, id \in ApprovalIdSpace : approve_action(t, id)
    \/ \E t \in Tasks : approve_action_send(t)

Spec == Init /\ [][Next]_vars

\* One run of generate_agent: generation, evaluation, selection, deployment.
InitSelect ==
    /\ GateIdle
    /\ whatsapp_agents \in BOOLEAN
    /\ user_profile \in SelectProfiles
    /\ test_scenarios \in {SubSeq(load_test_scenarios("none"), 1, n) : n \in 0 .. MaxScenarios}
    /\ SelectIdle
    /\ agent_impl \in {"sdk", "plain"}
    /\ LiveIdle
    /\ WhatsAppIdle
    /\ RerunIdle
    /\ PureIdle

NextSelect ==
    \/ GenerateSuite
    \/ EvaluatePair
    \/ EvaluateNone
    \/ SelectAndDeploy

SpecSelect == InitSelect /\ [][NextSelect]_vars

\* evaluate_agents and the selection run again on the agents and scenarios of
\* the run before: the locals of evaluate_agents start empty.
RerunEvaluate ==
    /\ gen_pc = "done"
    /\ Len(selected) < MaxRuns
    /\ gen_pc' = "evaluate"
    /\ eval_i' = 1
    /\ eval_j' = 1
    /\ total_score' = 0
    /\ agent_traces' = <<>>
    /\ scores' = <<>>
    /\ evaluation_traces' = <<>>
    /\ averages' = <<>>
    /\ UNCHANGED <<whatsapp_agents, user_profile, agents, test_scenarios,
                   active_agents, deployed>>
    /\ UNCHANGED <<gate_vars, live_vars, pure_vars, rerun_vars, whatsapp_vars>>

\* The backends that are a function of the agent and the prompt, for the
\* agents of a profile and the scenarios of a list.
Backends(profile, scenarios) ==
    [ {<<a.class, a.model, j>> : a \in ToSet(generate_agent_suite(profile)),
                                j \in DOMAIN scenarios} -> PairOutcomes ]

\* evaluate_agents and the selection, run MaxRuns times on one suite with a
\* backend that is a function of its arguments, and once on no agents.
InitEvaluate ==
    /\ GateIdle
    /\ whatsapp_agents = FALSE
    /\ user_profile = Profile(<<"better_sleep">>, "sms")
    /\ test_scenarios \in {SubSeq(load_test_scenarios("none"), 1, n) : n \in 1 .. MaxScenarios}
    /\ agents = <<>>
    /\ eval_i = 1
    /\ eval_j = 1
    /\ total_score = 0
    /\ agent_traces = <<>>
    /\ scores = <<>>
    /\ evaluation_traces = <<>>
    /\ averages = <<>>
    /\ active_agents = [u \in UserIds |-> NoAgent]
    /\ deployed = 0
    /\ agent_impl \in {"sdk", "plain"}
    /\ LiveIdle
    /\ WhatsAppIdle
    /\ selected = <<>>
    /\ \/ /\ gen_pc = "start"
          /\ backend \in Backends(user_profile, test_scenarios)
       \/ /\ gen_pc = "evaluate"
          /\ backend = NoBackend
    /\ PureIdle

NextEvaluate ==
    \/ GenerateSuite
    \/ EvaluatePair
    \/ EvaluateNoAgents
    \/ SelectAndDeploy
    \/ RerunEvaluate

SpecEvaluate == InitEvaluate /\ [][NextEvaluate]_vars

\* Calls of send_whatsapp_text, one after the other; a call that has started
\* runs on until it returns.
InitWhatsApp ==
    /\ GateIdle
    /\ whatsapp_agents = TRUE
    /\ user_profile = Profile(<<>>, "whatsapp")
    /\ test_scenarios = <<>>
    /\ SelectIdle
    /\ agent_impl = "sdk"
    /\ LiveIdle
    /\ WhatsAppIdle
    /\ RerunIdle
    /\ PureIdle

NextWhatsApp ==
    \/ \E m \in WhatsAppTexts : send_whatsapp_text(m)
    \/ WhatsAppAttempt

SpecWhatsApp == InitWhatsApp /\ [][NextWhatsApp]_vars /\ WF_vars(WhatsAppAttempt)

RECURSIVE GoalLists(_)
\* The lists of n goals.
GoalLists(n) ==
    IF n = 0 THEN {<<>>}
    ELSE {Append(l, g) : l \in GoalLists(n - 1), g \in Goals}

\* generate_agent_suite on each profile with at most MaxGoals goals.
InitGenerate ==
    /\ GateIdle
    /\ whatsapp_agents \in BOOLEAN
    /\ user_profile \in {Profile(goals, channel) :
                            goals \in UNION {GoalLists(n) : n \in 0 .. MaxGoals},
                            channel \in {"sms", "whatsapp"}}
    /\ test_scenarios = <<>>
    /\ SelectIdle
    /\ agent_impl \in {"sdk", "plain"}
    /\ LiveIdle
    /\ WhatsAppIdle
    /\ RerunIdle
    /\ PureIdle

NextGenerate == GenerateSuite

SpecGenerate == InitGenerate /\ [][NextGenerate]_vars

\* _calculate_score and calculate_daily_rewards on each of their arguments.
InitPure ==
    /\ GateIdle
    /\ whatsapp_agents = FALSE
    /\ user_profile = Profile(<<>>, "sms")
    /\ test_scenarios = <<>>
    /\ SelectIdle
    /\ agent_impl = "sdk"
    /\ LiveIdle
    /\ WhatsAppIdle
    /\ RerunIdle
    /\ pure_in \in ScoreInputs \cup RewardInputs \cup UpdateInputs
    /\ pure_out = NoValue

NextPure ==
    \/ ScoreStep
    \/ RewardStep
    \/ UpdateStep

SpecPure == InitPure /\ [][NextPure]_vars

\* The running service: generate_agent, chat, trigger-demo and agent-status
\* called in any order for the users of app_state.users.
InitLive ==
    /\ GateIdle
    /\ whatsapp_agents = FALSE
    /\ user_profile = users["demo-user-001"]
    /\ test_scenarios \in {SubSeq(load_test_scenarios("none"), 1, n) : n \in 0 .. 1}
    /\ gen_pc = "done"
    /\ agents = <<>>
    /\ eval_i = 1
    /\ eval_j = 1
    /\ total_score = 0
    /\ agent_traces = <<>>
    /\ scores = <<>>
    /\ evaluation_traces = <<>>
    /\ averages = <<>>
    /\ active_agents = [u \in UserIds |-> NoAgent]
    /\ deployed = 0
    /\ agent_impl \in {"sdk", "plain"}
    /\ LiveIdle
    /\ WhatsAppIdle
    /\ RerunIdle
    /\ PureIdle

NextLive ==
    \/ \E u \in UserIds : BeginGenerate(u)
    \/ GenerateSuite
    \/ EvaluatePair
    \/ EvaluateNone
    \/ SelectAndDeploy
    \/ \E u \in UserIds : chat_with_agent(u)
    \/ \E u \in UserIds : get_agent_status(u)
    \/ \E u \in UserIds : trigger_demo_sequence(u)
    \/ DemoTask
    \/ DemoReward
    \/ DemoRewrite

SpecLive == InitLive /\ [][NextLive]_vars

\* generate_agent for one profile on each prefix of the scenarios, and, next
\* to a run on at most one scenario, the scoring functions on each of their
\* arguments.
InitRange ==
    /\ GateIdle
    /\ whatsapp_agents = FALSE
    /\ user_profile = Profile(<<"better_sleep">>, "sms")
    /\ SelectIdle
    /\ agent_impl = "sdk"
    /\ LiveIdle
    /\ WhatsAppIdle
    /\ RerunIdle
    /\ pure_out = NoValue
    /\ \/ /\ test_scenarios \in {SubSeq(load_test_scenarios("none"), 1, n) :
                                      n \in 0 .. MaxScenarios}
          /\ pure_in = NoValue
       \/ /\ test_scenarios \in {SubSeq(load_test_scenarios("none"), 1, n) :
                                      n \in 0 .. 1}
          /\ pure_in \in ScoreInputs \cup RewardInputs

NextRange ==
    \/ GenerateSuite
    \/ EvaluatePair
    \/ EvaluateNone
    \/ SelectAndDeploy
    \/ ScoreStep
    \/ RewardStep

SpecRange == InitRange /\ [][NextRange]_vars

(***************************************************************************)
(* Properties of the approval gate (checked under Spec).                   *)
(***************************************************************************)
RECURSIVE SumCopies(_, _)
SumCopies(S, B) ==
    IF S = {} THEN 0
    ELSE LET e == CHOOSE x \in S : TRUE IN CopiesIn(e, B) + SumCopies(S \ {e}, B)

\* How often the deferred action of action dict ref has been executed.
ExecCount(ref) == SumCopies({e \in BagToSet(outbox) : e.ref = ref}, outbox)

\* C1: the deferred action of a request is executed at most once, whatever
\* the sequence of requestApproval and approve calls.
C1_AtMostOnce == \A ref \in DOMAIN heap : ExecCount(ref) <= 1

\* C2: two approve calls for the same pending id that overlap at the awaited
\* send end with exactly one execution of the deferred action.
C2_RacingApprovesExecuteOnce ==
    \A t1, t2 \in Tasks :
        ( /\ t1 # t2
          /\ tasks[t1].pc = "done" /\ tasks[t2].pc = "done"
          /\ tasks[t1].action = tasks[t2].action /\ tasks[t1].action # 0
          /\ tasks[t1].overlapped /\ tasks[t2].overlapped
          /\ tasks[t1].was = "pending" )
        => ExecCount(tasks[t1].action) = 1

\* C3: an approve call on a request that is already approved answers
\* AlreadyApproved, executes nothing and leaves the request as it was.
C3_AlreadyApproved ==
    [][ \A t \in Tasks :
          ( /\ tasks[t].pc = "idle" /\ tasks'[t].pc # "idle"
            /\ tasks'[t].was = "approved" )
          => ( /\ tasks'[t].pc = "done"
               /\ tasks'[t].outcome = "AlreadyApproved"
               /\ heap' = heap
               /\ outbox' = outbox ) ]_vars

\* C4: every execution of a send or a purchase is the execution step of an
\* approve call: it belongs to an approved request of the same kind and payload.
C4_OnlyThroughApproval ==
    \A e \in BagToSet(outbox) :
        /\ e.ref \in DOMAIN heap
        /\ heap[e.ref].status = "approved"
        /\ heap[e.ref].type = e.type
        /\ heap[e.ref].payload = e.payload

\* C5: when approve returns successfully for a request that was pending, of
\* either kind, the request is approved, approved_at is set, the deferred action
\* was executed and its result is attached.
C5_ApproveExecutes ==
    \A t \in Tasks :
        (tasks[t].pc = "done" /\ tasks[t].outcome = "approved" /\ tasks[t].was = "pending")
        => LET ref == tasks[t].action IN
           /\ heap[ref].status = "approved"
           /\ heap[ref].approved_at # NoTime
           /\ heap[ref].execution_result # NoResult
           /\ ExecCount(ref) >= 1

\* C6: approve with an id that is not in the approval store answers NotFound,
\* executes nothing and leaves the store unchanged.
C6_UnknownIdNotFound ==
    [][ \A t \in Tasks :
          ( /\ tasks[t].pc = "idle" /\ tasks'[t].pc # "idle"
            /\ tasks'[t].approval_id \notin Keys(approval_queue) )
          => ( /\ tasks'[t].pc = "done"
               /\ tasks'[t].outcome = "NotFound"
               /\ approval_queue' = approval_queue
               /\ heap' = heap
               /\ outbox' = outbox ) ]_vars

\* An approve call answered NotFound while the store holds another request.
C6_Witness ==
    \E t \in Tasks : tasks[t].outcome = "NotFound" /\ approval_queue # <<>>

\* C7: a request never leaves status approved, and in every state, also while
\* an approve call is in progress, an approved request carries its result.
C7_ApprovedCarriesResult ==
    [][ /\ \A ref \in DOMAIN heap :
              heap[ref].status = "approved" => heap'[ref].status = "approved"
        /\ \A ref \in DOMAIN heap' :
              heap'[ref].status = "approved" => heap'[ref].execution_result # NoResult
      ]_vars

\* C8: each requestApproval adds a pending request under an id no request in
\* the store has, so the store keeps every earlier request.
C8_FreshId ==
    [][ Len(heap') > Len(heap)
        => /\ heap'[Len(heap')].status = "pending"
           /\ Len(approval_queue') = Len(approval_queue) + 1
           /\ SubSeq(approval_queue', 1, Len(approval_queue)) = approval_queue ]_vars

\* The action dicts get_pending_approvals lists, in its order.
ListedPending == [i \in DOMAIN get_pending_approvals |-> get_pending_approvals[i].value]

\* The requests whose status is pending, in creation order.
CreatedPending ==
    SelectSeq([i \in DOMAIN heap |-> i], LAMBDA ref : heap[ref].status = "pending")

\* C9: listPending returns exactly the pending requests, in creation order.
C9_ListPending == ListedPending = CreatedPending

\* The action dicts get_pending_approvals lists.
PendingRefs == {get_pending_approvals[i].value : i \in DOMAIN get_pending_approvals}

\* C35: a deferred send that fails is reported as a value: the approve call
\* that ran it is answered approved with the failure as the execution result
\* of the request, and a request whose execution result is a failure is
\* approved and is not listed as pending.
C35_FailedSendIsValue ==
    [][ /\ \A t \in Tasks :
              ( /\ tasks[t].pc = "send"
                /\ tasks'[t].pc = "done"
                /\ Execution(heap[tasks[t].action].type, heap[tasks[t].action].payload,
                             "failed", tasks[t].action) \in DOMAIN (outbox' (-) outbox) )
                => /\ tasks'[t].outcome = "approved"
                   /\ heap'[tasks[t].action].execution_result = [status |-> "failed"]
        /\ \A ref \in DOMAIN heap' :
              heap'[ref].execution_result = [status |-> "failed"]
                => /\ heap'[ref].status = "approved"
                   /\ ref \notin PendingRefs'
      ]_vars

\* An approve call was answered approved for a request whose send failed,
\* while another request is pending.
C35_Witness ==
    /\ \E t \in Tasks :
            /\ tasks[t].pc = "done"
            /\ tasks[t].outcome = "approved"
            /\ tasks[t].action # 0
            /\ heap[tasks[t].action].execution_result = [status |-> "failed"]
    /\ PendingRefs # {}

(***************************************************************************)
(* Properties of selection (checked under SpecSelect).                     *)
(***************************************************************************)
\* C10: the deployed variant has the highest aggregate of all evaluated
\* variants, and is the first generated among those that share it.
C10_DeploysBest ==
    gen_pc = "done" =>
        /\ \A k \in DOMAIN agents : ~Less(averages[deployed], averages[k])
        /\ \A k \in DOMAIN agents : k < deployed => Less(averages[k], averages[deployed])

(***************************************************************************)
(* Properties of the scoring functions (checked under SpecPure).           *)
(***************************************************************************)
\* Size of a set, 1 for the empty set: the divisor of a term that is 0 anyway.
Divisor(S) == IF S = {} THEN 1 ELSE Cardinality(S)

\* C19: the score of a response (text, invoked tools) on a scenario (required
\* tools R, expected keywords O) is 0.5*|invoked \cap R|/|R| (0 if R is empty)
\* plus 0.5*|{o in O found in the text, case ignored}|/|O| (0 if O is empty);
\* when R and O are both empty it is 0.8 for a non-empty text and 0.5 otherwise.
C19_ScoreFormula ==
    pure_out.fn = "score" =>
        LET text == pure_in.response.message
            invoked == ToSet(pure_in.response.tool_calls)
            R == ToSet(pure_in.required_tools)
            O == ToSet(pure_in.expected_outcomes)
            found == {o \in O : \E w \in text : Lower(w) = Lower(o)}
        IN  IF R = {} /\ O = {}
            THEN 10 * pure_out.score = (IF text # {} THEN 8 ELSE 5) * ScoreUnit
            ELSE 2 * pure_out.score * Divisor(R) * Divisor(O)
                    = ScoreUnit * ( Cardinality(invoked \cap R) * Divisor(O)
                                    + Cardinality(found) * Divisor(R) )

\* A response that used every required tool and holds every keyword, one of
\* them in another case, scored 1.0.
C19_Witness ==
    /\ pure_out.fn = "score"
    /\ pure_out.score = ScoreUnit
    /\ pure_in.required_tools # <<>>
    /\ \E i \in DOMAIN pure_in.expected_outcomes :
            pure_in.expected_outcomes[i] \notin pure_in.response.message

(***************************************************************************)
(* Properties of the running service (checked under SpecLive).             *)
(***************************************************************************)
\* The step deploys for user u: the end of generate_agent, or the upgrade of
\* trigger_demo_sequence.
DeployStepFor(u) ==
    \/ gen_pc = "select" /\ user_profile.id = u
    \/ demo.pc \in {"reward", "rewrite"} /\ demo.user_id = u

\* C11: the registry holds one entry per user; get_active_agent(user) is the
\* agent deployed last for that user, and None if none was ever deployed; a
\* deploy for one user leaves every other user's entry as it was.
C11_Registry ==
    [][ /\ \A u \in UserIds :
            /\ (FirstIdOf(u) = 0)' => active_agents'[u] = NoAgent
            /\ active_agents'[u] # active_agents[u] => DeployStepFor(u)
        /\ (gen_pc = "select" /\ gen_pc' = "done")
              => active_agents'[user_profile.id] = agents[deployed']
        /\ (demo.pc = "rewrite" /\ regenerated' # regenerated)
              => active_agents'[demo.user_id] = ImprovedAgent(demo.agent)
      ]_vars

\* One user's agent was replaced by a redeploy while the other user has none.
C11_Witness ==
    \E u, v \in UserIds :
        /\ replacements[u] > 0
        /\ active_agents[u] # NoAgent
        /\ active_agents[v] = NoAgent

\* C12: the version of a user's deployment goes up by one with each
\* replacement of the active agent, so the version get_agent_status reports
\* is the first version, 1, plus the number of replacements made for the user.
C12_VersionCounts ==
    [][ status_reply' # status_reply =>
            status_reply'[1].version = 1 + replacements[status_reply'[1].user_id]
      ]_vars

\* The mean of the five dimensions of a reward, times 5 * ScoreUnit / ScoreUnit.
FiveSum(r) ==
    r.task_completion + r.user_engagement + r.timing_accuracy
        + r.resource_efficiency + r.safety_compliance

\* The rewards calculate_daily_rewards stored last under agent_id.
LastRewards(history, agent_id) ==
    LET l == Lookup(history, agent_id) IN l[Len(l)]

RECURSIVE StoredTraces(_, _)
StoredTraces(u, k) ==
    IF k > Len(app_agent_traces) THEN 0
    ELSE (IF app_agent_traces[k].key.user_id = u
          THEN Len(app_agent_traces[k].value) ELSE 0) + StoredTraces(u, k + 1)

\* C14: every completed interaction with the deployed agent (a chat message
\* or a demo task) has appended one trace to the agent's log, which the next
\* reward computation reads.
C14_TracesLogged == \A u \in UserIds : StoredTraces(u, 1) >= completed[u]

\* C15: when a regeneration fails (the rewrite call or the construction of
\* the new agent raises) the deployment holds the agent it held, unmodified.
C15_FailedRegeneration ==
    [][ ( /\ demo.pc \in {"reward", "rewrite"}
          /\ demo'.pc = "idle"
          /\ demo_results'[demo.user_id][1].regeneration = "failed" )
        => /\ active_agents' = active_agents
           /\ lists' = lists
      ]_vars

\* A regeneration failed for a user who has an agent deployed.
C15_Witness ==
    \E u \in UserIds :
        /\ demo_results[u] # <<>>
        /\ demo_results[u][1].regeneration = "failed"
        /\ active_agents[u] # NoAgent

\* C16: regeneration never mutates the old agent: an interaction with the
\* new agent leaves the old agent's conversation state as it was when the
\* new agent was made.
C16_OldAgentUntouched ==
    [][ \A p \in regenerated :
            (last_agent' = p.new /\ lists' # lists)
                => lists'[p.old.conversation_history]
                        = lists[p.old.conversation_history]
      ]_vars

(***************************************************************************)
(* Properties of evaluation (checked under SpecSelect).                    *)
(***************************************************************************)
\* The trace lists evaluate_agents holds: the one being filled and the ones
\* stored in the result.
TraceLists == {agent_traces} \cup {evaluation_traces[i].value : i \in DOMAIN evaluation_traces}

\* C17: a pair that raises is recorded with score 0.5 and the error, and the
\* run goes on: when evaluation ends its result holds, for every agent, one
\* entry for every scenario.
C17_ResultForEveryPair ==
    /\ \A l \in TraceLists : \A i \in DOMAIN l :
            l[i].error => l[i].score = PartialCredit
    /\ gen_pc \in {"select", "done"} =>
            /\ Len(evaluation_traces) = Len(agents)
            /\ \A i \in DOMAIN evaluation_traces :
                    Len(evaluation_traces[i].value) = Len(test_scenarios)

\* C18: a pair on which the completion backend failed is recorded with the
\* partial-credit score 0.5 and an error, as any other failed pair is.
C18_BackendErrorPartialCredit ==
    \A l \in TraceLists : \A i \in DOMAIN l :
        l[i].response = ErrorReply.message
            => (l[i].score = PartialCredit /\ l[i].error)

(***************************************************************************)
(* The range of scores and rewards (checked under SpecRange).              *)
(***************************************************************************)
InUnit(x) == 0 <= x /\ x <= ScoreUnit

\* C20: every score of a pair, every average score of an agent and every
\* dimension of every reward lies in [0, 1].
C20_UnitRange ==
    /\ \A l \in TraceLists : \A i \in DOMAIN l : InUnit(l[i].score)
    /\ \A i \in DOMAIN scores :
            /\ 0 <= scores[i].value.num
            /\ scores[i].value.num <= ScoreUnit * scores[i].value.den
    /\ \A i \in DOMAIN averages :
            /\ 0 <= averages[i].num
            /\ averages[i].num <= ScoreUnit * averages[i].den
    /\ pure_out.fn = "score" => InUnit(pure_out.score)
    /\ pure_out.fn = "rewards" =>
            \A k \in DOMAIN RewardKeys : InUnit(pure_out.rewards[RewardKeys[k]])

\* An agent was deployed whose average is above 0 and the rewards of a log
\* with completed and failed traces were computed.
C20_Witness ==
    /\ gen_pc = "done"
    /\ \E i \in DOMAIN averages : averages[i].num > 0
    /\ pure_out.fn = "rewards"
    /\ 0 < pure_out.rewards.task_completion
    /\ pure_out.rewards.task_completion < ScoreUnit

(***************************************************************************)
(* Properties of generate_agent_suite (checked under SpecGenerate).        *)
(***************************************************************************)
\* The specialty a goal stands for, "none" for a goal that stands for none.
SpecialtyOfGoal(goal) ==
    CASE goal = "better_sleep" -> "sleep"
      [] goal = "stress_reduction" -> "stress"
      [] goal = "stress_management" -> "stress"
      [] goal = "exercise_consistency" -> "fitness"
      [] goal = "hydration" -> "nutrition"
      [] OTHER -> "none"

\* The specialty of an agent class.
SpecialtyOfClass(cls) ==
    CASE cls \in {"SleepOptimizationAgent", "WhatsAppSleepAgent"} -> "sleep"
      [] cls = "StressManagementAgent" -> "stress"
      [] cls = "FitnessAgent" -> "fitness"
      [] cls = "NutritionAgent" -> "nutrition"
      [] OTHER -> "generic"

\* The specialties the goals of the profile stand for.
Matched(profile) ==
    {SpecialtyOfGoal(profile.wellness_goals[i]) : i \in DOMAIN profile.wellness_goals}
        \ {"none"}

\* The position of the first goal of the profile that stands for specialty s.
FirstGoalOf(profile, s) ==
    CHOOSE i \in DOMAIN profile.wellness_goals :
        /\ SpecialtyOfGoal(profile.wellness_goals[i]) = s
        /\ \A k \in DOMAIN profile.wellness_goals :
                SpecialtyOfGoal(profile.wellness_goals[k]) = s => i <= k

\* The profile without the goals that stand for no specialty.
Recognized(profile) ==
    [profile EXCEPT !.wellness_goals =
        SelectSeq(profile.wellness_goals, LAMBDA g : SpecialtyOfGoal(g) # "none")]

\* The agents of a suite without the lists they refer to.
Bare(suite) == [i \in DOMAIN suite |-> [suite[i] EXCEPT !.conversation_history = 0]]

\* C21: generate_agent_suite never returns an empty list; when no goal of the
\* profile stands for a specialty (no goals, or unknown goals only) it returns
\* exactly one generic agent of the default model, and unknown goals add none.
C21_NeverEmpty ==
    gen_pc = "evaluate" =>
        /\ agents # <<>>
        /\ Matched(user_profile) = {} =>
                /\ Len(agents) = 1
                /\ SpecialtyOfClass(agents[1].class) = "generic"
                /\ agents[1].model = "gpt-4.1"
        /\ Bare(agents) = Bare(generate_agent_suite(Recognized(user_profile)))

\* A suite was generated for a profile whose only goals are unknown ones.
C21_Witness ==
    /\ gen_pc = "evaluate"
    /\ user_profile.wellness_goals # <<>>
    /\ Matched(user_profile) = {}

\* C22: for every goal list generate_agent_suite returns two agents for each
\* specialty matched, one of each model and equal otherwise, in the order of
\* the first goal that matched the specialty; a repeated goal and two goals
\* of one specialty add no agent.
C22_TwoPerSpecialty ==
    (gen_pc = "evaluate" /\ Matched(user_profile) # {}) =>
        /\ Len(agents) = 2 * Cardinality(Matched(user_profile))
        /\ \A k \in 1 .. Cardinality(Matched(user_profile)) :
            LET a == agents[2 * k - 1]
                b == agents[2 * k]
            IN  /\ a.model = "gpt-4.1"
                /\ b.model = "gpt-4.1-mini"
                /\ [a EXCEPT !.model = "", !.conversation_history = 0]
                     = [b EXCEPT !.model = "", !.conversation_history = 0]
                /\ SpecialtyOfClass(a.class) \in Matched(user_profile)
                /\ \A l \in 1 .. Cardinality(Matched(user_profile)) :
                      k < l =>
                        FirstGoalOf(user_profile, SpecialtyOfClass(a.class))
                          < FirstGoalOf(user_profile,
                                        SpecialtyOfClass(agents[2 * l].class))

\* A suite was generated for a goal list that names one specialty twice, by
\* two different goals, after another specialty.
C22_Witness ==
    /\ gen_pc = "evaluate"
    /\ Len(user_profile.wellness_goals) = 3
    /\ Cardinality(Matched(user_profile)) = 2
    /\ user_profile.wellness_goals[2] # user_profile.wellness_goals[3]
    /\ SpecialtyOfGoal(user_profile.wellness_goals[2])
         = SpecialtyOfGoal(user_profile.wellness_goals[3])
    /\ SpecialtyOfGoal(user_profile.wellness_goals[2]) # "none"

\* The key under which the WhatsApp template of a specialty is registered,
\* "none" for a specialty that has no such key.
WhatsAppTemplateOf(specialty) ==
    CASE specialty = "sleep" -> "whatsapp_sleep_specialist"
      [] specialty = "generic" -> "whatsapp_wellness"
      [] OTHER -> "none"

\* The class of the generic template of a specialty.
GenericTemplateOf(specialty) ==
    CASE specialty = "sleep" -> "SleepOptimizationAgent"
      [] specialty = "stress" -> "StressManagementAgent"
      [] specialty = "fitness" -> "FitnessAgent"
      [] specialty = "nutrition" -> "NutritionAgent"
      [] OTHER -> "WellnessAgent"

\* The agents of specialty s are of the WhatsApp class registered for s when
\* the profile prefers WhatsApp and such a class is registered, and of the
\* generic class of s otherwise.
UsesChannelTemplate(s) ==
    \A i \in DOMAIN agents :
        SpecialtyOfClass(agents[i].class) = s =>
            agents[i].class =
                IF /\ user_profile.messaging_channel = "whatsapp"
                   /\ WhatsAppTemplateOf(s) \in DOMAIN agent_templates
                THEN agent_templates[WhatsAppTemplateOf(s)]
                ELSE GenericTemplateOf(s)

\* C30: for every specialty with a registered channel-specialized template,
\* the agents generated for it use that template when the profile prefers the
\* channel; when the channel is not preferred or no such template is
\* registered they use the generic template.
C30_ChannelTemplate ==
    gen_pc = "evaluate" =>
        \A s \in {"sleep", "stress", "fitness", "nutrition", "generic"} :
            UsesChannelTemplate(s)

(***************************************************************************)
(* Properties of the reward functions (checked under SpecPure).            *)
(***************************************************************************)
\* The number of traces of a log with the given status.
CountStatus(actions, st) ==
    Cardinality({i \in DOMAIN actions : actions[i].status = st})

\* C23: task_completion is the number of log entries with status completed
\* divided by the number of all entries, and 0 for an empty log; an entry
\* with status failed or pending counts in the denominator only.
C23_TaskCompletion ==
    pure_out.fn = "rewards" =>
        LET actions == pure_in.agent_actions
            value == pure_out.rewards.task_completion
        IN  /\ actions = <<>> => value = 0
            /\ value * Len(actions)
                 = (Len(actions) - CountStatus(actions, "failed")
                                 - CountStatus(actions, "pending")) * ScoreUnit

\* The rewards of a log with a completed, a failed and a pending entry.
C23_Witness ==
    /\ pure_out.fn = "rewards"
    /\ CountStatus(pure_in.agent_actions, "completed") = 1
    /\ CountStatus(pure_in.agent_actions, "failed") = 1
    /\ CountStatus(pure_in.agent_actions, "pending") = 1

\* The reward dimensions whose value is below 0.7.
Below07(rewards) ==
    {k \in DOMAIN rewards : 10 * rewards[k] < 7 * ScoreUnit}

\* C24: whenever the rewards trigger a regeneration, the weak areas named in
\* the request for new instructions and the improvements reported for the
\* upgrade are exactly the reward dimensions whose value is below 0.7.
C24_WeakAreas ==
    (pure_out.fn = "update" /\ pure_out.triggered) =>
        /\ ToSet(pure_out.weak_areas) = Below07(pure_in.rewards)
        /\ Len(pure_out.weak_areas) = Cardinality(Below07(pure_in.rewards))
        /\ ToSet(pure_out.improvements) = Below07(pure_in.rewards)
        /\ Len(pure_out.improvements) = Cardinality(Below07(pure_in.rewards))

\* Rewards with safety_compliance 0.6 and average 0.75 triggered a
\* regeneration that names safety_compliance, and not timing_accuracy at 0.7.
C24_Witness ==
    /\ pure_out.fn = "update"
    /\ pure_out.triggered
    /\ 10 * pure_in.rewards.safety_compliance = 6 * ScoreUnit
    /\ 10 * pure_in.rewards.timing_accuracy = 7 * ScoreUnit
    /\ 100 * SumValues(pure_in.rewards, 1) = 75 * ScoreUnit * Len(RewardKeys)
    /\ "safety_compliance" \in ToSet(pure_out.weak_areas)

\* C34: the demo sequence reports agent_upgraded only when update_agent
\* returned an agent other than the one it was given; with the estimators of
\* the code a log whose rewards are below 0.8 on average has task_completion
\* among its weak areas, so update_agent never returns the agent unchanged.
C34_UpgradeReplaces ==
    pure_out.fn = "rewards" =>
        /\ pure_out.agent_upgraded => pure_out.new_agent = "improved_agent"
        /\ pure_out.below_threshold =>
                /\ "task_completion" \in ToSet(pure_out.weak_areas)
                /\ pure_out.new_agent # "same_agent"

\* The rewards of a log with a completed entry and an entry that mentions an
\* approval triggered the regeneration.
C34_Witness ==
    /\ pure_out.fn = "rewards"
    /\ pure_out.agent_upgraded
    /\ pure_out.rewards.task_completion > 0
    /\ pure_out.rewards.safety_compliance < ScoreUnit

(***************************************************************************)
(* Properties of the reward history (checked under SpecLive).              *)
(***************************************************************************)
RECURSIVE TotalEntries(_, _)
\* The number of rewards in the histories of a dict, from entry k on.
TotalEntries(history, k) ==
    IF k > Len(history) THEN 0
    ELSE Len(history[k].value) + TotalEntries(history, k + 1)

\* Sequence s is the beginning of sequence t.
IsPrefix(s, t) == Len(s) <= Len(t) /\ SubSeq(t, 1, Len(s)) = s

PairScoreOf(agent, j) ==
    LET o == IF agent_impl = "plain"
             THEN CHOOSE x \in PairOutcomesOf("plain") : TRUE
             ELSE backend[<<agent.class, agent.model, j>>]
    IN  IF o.kind = "raise" THEN PartialCredit
        ELSE calculate_score(o.response, test_scenarios[j].expected_outcomes,
                             test_scenarios[j].required_tools)

RECURSIVE SumPairScores(_, _)
\* The sum of the scores of the pairs of an agent, from scenario number j on.
SumPairScores(agent, j) ==
    IF j > Len(test_scenarios) THEN 0
    ELSE PairScoreOf(agent, j) + SumPairScores(agent, j + 1)

\* C27: the evaluation of a pair changes no state the evaluation of another
\* pair reads: no conversation grows during evaluation, and the average score
\* of each agent is the mean of the scores its own pairs get from the backend,
\* whatever was evaluated before.
C27_PairsIndependent ==
    backend # NoBackend =>
        /\ \A r \in DOMAIN lists : lists[r] = <<>>
        /\ \A i \in DOMAIN averages :
                averages[i] = Average(SumPairScores(agents[i], 1), Len(test_scenarios))

\* Both agents were evaluated on two scenarios, in a second run, and the
\* second agent got the higher average.
C27_Witness ==
    /\ backend # NoBackend
    /\ Len(test_scenarios) = 2
    /\ Len(selected) = 1
    /\ Len(averages) = 2
    /\ Less(averages[1], averages[2])

C28_ChatFailureReturned ==
    \A i \in DOMAIN chat_reply :
        chat_reply[i].backend_failed =>
            /\ chat_reply[i].outcome = "returned"
            /\ ~chat_reply[i].success_flag
            /\ chat_reply[i].error

(***************************************************************************)
(* Properties of the result of evaluate_agents (checked under SpecSelect). *)
(***************************************************************************)
RECURSIVE SumScores(_, _)
\* The sum of the scores of a list of trace_info, from entry k on.
SumScores(l, k) ==
    IF k > Len(l) THEN 0 ELSE l[k].score + SumScores(l, k + 1)

C32_OneEntryPerAgent ==
    gen_pc \in {"select", "done"} =>
        /\ Len(scores) = Len(agents)
        /\ Len(evaluation_traces) = Len(agents)
        /\ \A i, k \in DOMAIN agents :
                i # k => agent_key(agents[i]) # agent_key(agents[k])
        /\ \A i \in DOMAIN agents :
                Lookup(scores, agent_key(agents[i])) = averages[i]
        /\ gen_pc = "done" =>
                \A i \in DOMAIN scores : ~Less(averages[deployed], scores[i].value)

WhatsAppBounded ==
    /\ wa_call.attempt <= 3
    /\ wa_call.pc = "attempt" => wa_call.failures = wa_call.attempt - 1
    /\ \A i \in DOMAIN wa_log :
        /\ wa_log[i].attempts <= 3
        /\ wa_log[i].deliveries <= 1
        /\ wa_log[i].deliveries = 1 => wa_log[i].failures = wa_log[i].attempts - 1
        /\ wa_log[i].result = "Error sending WhatsApp" <=> wa_log[i].failures = 3
        /\ wa_log[i].result = "Sent WhatsApp" <=> wa_log[i].deliveries = 1

\* C36: a call of send_whatsapp_text makes at most 3 attempts, stops at the
\* first attempt that succeeds and so delivers at most once, returns the error
\* summary exactly when 3 attempts failed, and always returns.
C36_BoundedRetry ==
    /\ []WhatsAppBounded
    /\ (wa_call.pc = "attempt") ~> (wa_call.pc = "idle")

\* One call returned the error summary and one delivered at its third
\* attempt.
C36_Witness ==
    /\ \E i \in DOMAIN wa_log : wa_log[i].result = "Error sending WhatsApp"
    /\ \E i \in DOMAIN wa_log :
            wa_log[i].result = "Sent WhatsApp" /\ wa_log[i].attempts = 3

====
